---- MODULE Spec2Model ----
(***************************************************************************)
(* Pivotal Tuning Inversion (lora_diffusion/cli_lora_pti.py): the run of   *)
(* train, i.e. the execution-mode startup, train_inversion (textual        *)
(* inversion of the placeholder rows of the token embedding table) and     *)
(* perform_tuning (LoRA tuning), as a state machine over program           *)
(* positions.                                                              *)
(*                                                                         *)
(* Numbers.  An embedding row is one signed integer (embedding_dim = 1),   *)
(* in units of 0.1, so that its norm is its absolute value and the target  *)
(* norm 0.4 of the renormalisation is 4.  100 * lr is kept in quarters     *)
(* (LamDen), so that lambda = min(1.0, 100 * lr) is min(LamDen, lr100).    *)
(* The values the optimizer can produce (OptVals) are even, which makes    *)
(* every product lambda * (0.4 - pre_norm) exact in these units.           *)
(*                                                                         *)
(* Adapter (LoRA) weights are identified by the number of optimizer        *)
(* updates applied to them; accumulated gradients by the number of         *)
(* backward passes accumulated since the last zero_grad.                   *)
(*                                                                         *)
(* Strings.  A token argument ("<a>|<b>") is a sequence of words and "|"   *)
(* separators; str.split("|") is Split.  File names are pairs of a stem    *)
(* and a step number (Path).                                               *)
(*                                                                         *)
(* Tensors.  An image or latent tensor is identified by whether it went    *)
(* through vae.encode and by how many times it was multiplied by 0.18215.  *)
(*                                                                         *)
(* Masks.  A supervision mask is a row of pixels with values in            *)
(* hundredths; a weight is a fraction num / den of whole numbers (exact    *)
(* arithmetic, whole temperatures).  A directory entry is the sequence of  *)
(* its characters, so that lower() and endswith() are computed.            *)
(***************************************************************************)
EXTENDS Integers, Sequences, FiniteSets, TLC

\* ------------------------------------------------------------- bounds
MaxStepsTi == 3
MaxStepsTuning == 3
MaxLoaderLen == 2
MaxAccum == 2
MaxSaveSteps == 2
MaxArgLen == 3
BaseVocab == 2
ExecMaxSteps == 1
MaxTimesteps == 3
MaxBatch == 2
\* largest mask_temperature (whole numbers)
MaxTemperature == 3
\* locations of a prediction along its spatial axis
MaskLen == 2
\* entries of the evaluation image directory
MaxListing == 2

\* ------------------------------------------------ program constants
\* 0.4, the norm the trainable rows are pulled to (units of 0.1)
TargetNorm == 4
\* denominator of lambda_ and of 100 * lr
LamDen == 4
\* pixels of the supervision mask per location of the prediction (8 in the
\* source; the nearest-neighbour resize keeps the first pixel of each group)
MaskFactor == 2
\* loss_step's default mask_temperature, the one train_inversion runs with
DefaultMaskTemperature == 1

\* values an optimizer step can leave in a trainable row: negative, zero
\* (a row that received no gradient and started at <zero>), below and above
\* the target norm
OptVals == {-2, 0, 6}
\* how far an optimizer step can move the rows that are meant to stay frozen
Drifts == {0, 2}
\* 100 * lr in quarters, as returned by lr_scheduler.get_last_lr()[0]
LrVals == {2, 8}

Devices == {"hpu", "cpu"}

\* the words a placeholder_tokens argument is made of, and the separator
PlaceholderWords == {"<a>", "<b>"}
\* the words an initializer_tokens argument is made of: the two special forms,
\* a word of the vocabulary, and a text the tokenizer splits in two
InitializerWords == {"<zero>", "<rand-0.017>", "<rand-0.034>", "cat", "cat dog"}
\* the values torch.randn_like can draw for a row, in units of 0.1 / 0.017 (so
\* that sigma_val in units of 0.017 times the draw is a row in units of 0.1)
GaussVals == {-1, 1}
\* the file names out_name is drawn from
OutNames == {"final_lora", "step_1", "step_inv_1"}
\* values of train's proxy_token; "None" stands for None
ProxyTokens == {"None", "person", "dog"}
\* values of a pixel of the supervision mask, in hundredths
MaskVals == {0, 50, 100}
\* the supervision mask of the batches at the resolution of the images, one
\* value per pixel; <<>> when the batches carry no mask
Masks == {<<>>} \cup [1 .. (MaskLen * MaskFactor) -> MaskVals]
\* names of directory entries, one character per element
FileNames == {<<"a", ".", "p", "n", "g">>, <<"b", ".", "j", "p", "g">>,
              <<"c", ".", "j", "p", "e", "g">>, <<"D", ".", "P", "N", "G">>,
              <<"e", ".", "t", "x", "t">>, <<"p", "n", "g">>}
\* os.listdir(test_image_path): distinct entries in the order the system gives
Listings == UNION {{l \in [1 .. n -> FileNames] :
                       \A i, j \in 1 .. n : i # j => l[i] # l[j]} : n \in 0 .. MaxListing}

VARIABLES
    cfg,                \* the arguments of train that are never reassigned
    use_lazy_mode,      \* train's local, reassigned at startup
    use_fused_clip_norm,\* train's local, reassigned at startup
    htcore,             \* TRUE when habana_frameworks.torch.core is bound to htcore
    pc,                 \* program position
    error,              \* the exception that ended the run, "" if none
    global_step,        \* the running loop's step counter
    epoch,              \* index of the running loop's epoch
    batch_idx,          \* batches of the current epoch already taken
    weight,             \* text_encoder.get_input_embeddings().weight
    pretrained,         \* the table as get_models returned it
    orig_embeds_params, \* train_inversion's clone of the table
    index_no_updates,   \* row -> TRUE when the row is not a placeholder row
    grad_passes,        \* backward passes accumulated in the embedding gradient
    last_lr,            \* 100 * lr_scheduler.get_last_lr()[0] of the inversion
                        \* scheduler, in quarters
    sched_steps,        \* number of lr_scheduler.step() calls of the running loop
    pre_norm_bound,     \* train_inversion's local pre_norm has been assigned
    pre_norm,           \* row -> norm before renormalisation
    lambda_,            \* train_inversion's local lambda_, in quarters
    pending_reset,      \* an optimizer step has run and the frozen-row reset has not
    lora,               \* adapter weights (number of updates), -1 before injection
    emb_in_optimizer,   \* the tuning optimizer holds the embedding parameters
    fused_clip_norm_bound, \* perform_tuning's local fused_clip_norm has been assigned
    grad_clipped,       \* the gradients of the current tuning step have been clipped
    steps_done,         \* phase -> number of loop bodies run to their end
    writes,             \* the files save_all was called on so far, in order
    last_saved,         \* what the latest save_all call wrote
    evals,              \* the evaluate_pipe calls so far, in order
    placeholder_tokens, \* train's local after the split of the argument
    initializer_tokens, \* train's local after the split of the argument
    placeholder_token_ids, \* the ids get_models returned
    models,             \* "none", "loading" (get_models raised) or "returned"
    wandb_run,          \* wandb.init has been called
    writer,             \* the SummaryWriter: "none", "open" or "closed"
    dataset,            \* batch -> the tensor the data loader yields for it
    vae_calls,          \* number of vae.encode calls so far
    latents,            \* loss_step's local latents, <<>> outside loss_step
    masked_image_latents, \* loss_step's local of that name, <<>> when unassigned
    timesteps,          \* loss_step's local timesteps, <<>> outside loss_step
    train_dataloader,   \* train's local: "none", "text2img" or "inpainting"
    loss_mask,          \* the weight the latest loss_step multiplied into
                        \* prediction and target, <<>> when the batch had no mask
    class_token,        \* train's local class_token, "" before its assignment
    target_images       \* phase -> the images of the latest evaluation block

vars == <<cfg, placeholder_tokens, initializer_tokens, placeholder_token_ids, models,
          wandb_run, writer, dataset, vae_calls, latents, masked_image_latents,
          timesteps, use_lazy_mode, use_fused_clip_norm, htcore, pc, error, global_step,
          epoch, batch_idx, weight, pretrained, orig_embeds_params, index_no_updates,
          grad_passes, last_lr, sched_steps, pre_norm_bound, pre_norm, lambda_,
          pending_reset, lora, emb_in_optimizer, fused_clip_norm_bound, grad_clipped,
          steps_done, writes, last_saved, evals, train_dataloader, loss_mask,
          class_token, target_images>>

execVars == <<use_lazy_mode, use_fused_clip_norm, htcore>>
loopVars == <<global_step, epoch, batch_idx>>
embVars == <<weight, pretrained, orig_embeds_params, index_no_updates>>
invVars == <<pre_norm_bound, pre_norm, lambda_, pending_reset>>
tuneVars == <<lora, emb_in_optimizer, fused_clip_norm_bound, grad_clipped>>
outVars == <<writes, last_saved, evals>>
tokVars == <<placeholder_tokens, initializer_tokens, placeholder_token_ids, models>>
logVars == <<wandb_run, writer>>
dataVars == <<dataset, vae_calls, latents, masked_image_latents, timesteps>>
lossVars == <<train_dataloader, loss_mask>>
evalVars == <<class_token, target_images>>

\* ------------------------------------------------------------ helpers
Abs(x) == IF x < 0 THEN -x ELSE x

Sign(x) == IF x < 0 THEN -1 ELSE IF x = 0 THEN 0 ELSE 1

\* math.ceil(num_steps / len(dataloader))
NumEpochs(num_steps, len) == (num_steps + len - 1) \div len

\* rows of the table: the base vocabulary, then one row per placeholder token
Rows(np) == 0 .. (BaseVocab + np - 1)

\* the ids tokenizer.add_tokens gave the placeholder tokens
PlaceholderIds(np) == BaseVocab .. (BaseVocab + np - 1)

\* the pretrained value of a base row
BaseRow(r) == 2 * (r + 1)

\* .norm(dim=-1) of a row
Norm(x) == Abs(x)

\* F.normalize(row, dim=-1): row / max(norm, eps); a zero row stays zero
Normalize(x) == Sign(x)

Lambda_NoCap(lr100) == lr100

\* lambda_ = min(1.0, 100 * lr_scheduler.get_last_lr()[0])
Lambda(lr100) == IF lr100 < LamDen THEN lr100 ELSE LamDen

\* F.normalize(row) * (pre_norm + lambda_ * (0.4 - pre_norm))
Renorm(x, lam) == Normalize(x) * (Norm(x) + (lam * (TargetNorm - Norm(x))) \div LamDen)

NoReset(w, orig, mask) == w

\* weight[index_no_updates] = orig_embeds_params[index_no_updates]
ResetFrozen(w, orig, mask) == [r \in DOMAIN w |-> IF mask[r] THEN orig[r] ELSE w[r]]

\* the tables an optimizer step over the whole embedding parameter can leave:
\* any of OptVals in each placeholder row, and the other rows all kept or all
\* moved by one of Drifts (the optimizer holds the whole table, not the placeholder rows)
OptimizerOutcomes(w, mask) ==
    LET placeholder_rows == {r \in DOMAIN w : ~mask[r]}
    IN {[r \in DOMAIN w |-> IF mask[r] THEN w[r] + d ELSE t[r]] :
            d \in Drifts, t \in [placeholder_rows -> OptVals]}

BoundaryAlways(gs, accum) == TRUE

\* if global_step % accum_iter == 0
AccumBoundary(gs, accum) == gs % accum = 0

SaveDueEveryStep(gs, save) == TRUE

SaveDueOffByOne(gs, save) == (gs + 1) % save = 0

\* if global_step % save_steps == 0
SaveDue(gs, save) == gs % save = 0

BreakStrict(gs, num_steps) == gs > num_steps

\* if global_step >= num_steps: break
BreakCond(gs, num_steps) == gs >= num_steps

UnboundLocalNever(bound) == FALSE

\* reading a local that no executed statement assigned raises UnboundLocalError
UnboundLocal(bound) == ~bound

LoggingAlways == TRUE

\* log_wandb or log_tb
Logging == cfg.log_wandb \/ cfg.log_tb

\* the file name of a checkpoint: step_inv_{n}, step_{n} or {out_name}
Path(stem, n) == [stem |-> stem, n |-> n]

\* save_all(unet, text_encoder, save_path=..., save_lora=...): the file written
\* and what it holds (no adapter weights when save_lora=False)
SaveAll(stem, n, save_lora) ==
    /\ writes' = Append(writes, Path(stem, n))
    /\ last_saved' = [path |-> Path(stem, n), emb |-> weight,
                      lora |-> IF save_lora THEN lora ELSE -1]

\* evaluate_pipe(pipe, ...): the phase and step of the call
EvaluatePipe(phase) == [phase |-> phase, step |-> global_step]

Abort(msg) ==
    /\ pc' = "aborted"
    /\ error' = msg

\* the file out_name names: step_1 and step_inv_1 are the names the loops give
\* their checkpoints of step 1
OutPath(out_name) ==
    CASE out_name = "step_1" -> Path("step", 1)
      [] out_name = "step_inv_1" -> Path("step_inv", 1)
      [] OTHER -> Path(out_name, -1)

\* ------------------------------------------------------------ token lists
\* str.split("|") of a string of words and separators
RECURSIVE Split(_)
Split(s) ==
    IF s = <<>> THEN <<"">>
    ELSE IF Head(s) = "|" THEN <<"">> \o Split(Tail(s))
    ELSE LET rest == Split(Tail(s)) IN <<Head(s) \o Head(rest)>> \o Tail(rest)

\* the order of Python strings on the placeholder words
WordRank(w) == CASE w = "" -> 0 [] w = "<a>" -> 1 [] w = "<b>" -> 2

SortedAlways(l) == TRUE

\* sorted(placeholder_tokens) == placeholder_tokens
IsSorted(l) == \A i \in 1 .. (Len(l) - 1) : WordRank(l[i]) <= WordRank(l[i + 1])

\* init_tok.startswith("<rand")
StartsWithRand(tok) == tok \in {"<rand-0.017>", "<rand-0.034>"}

\* float(re.findall(r"<rand-(.*)>", init_tok)[0]), in units of 0.017
Sigma(tok) == CASE tok = "<rand-0.017>" -> 1 [] tok = "<rand-0.034>" -> 2

\* tokenizer.encode(init_tok, add_special_tokens=False)
Encode(tok) ==
    CASE tok = "cat" -> <<0>>
      [] tok = "cat dog" -> <<0, 1>>
      [] OTHER -> <<>>

\* ------------------------------------------------------------ tensors
\* an image tensor of the dataset
Pixels == [kind |-> "pixels", scaled |-> 0]

\* vae.encode(x).latent_dist.sample()
VaeEncode(x) == [kind |-> "latent", scaled |-> x.scaled]

\* x * 0.18215
Scale(x) == [x EXCEPT !.scaled = @ + 1]

\* the examples of a batch, collated
Batch(b) == [j \in 1 .. cfg.train_batch_size |->
                dataset[(b - 1) * cfg.train_batch_size + j]]

\* t_mutliplier: 1.0 by default, 0.8 in perform_tuning
InversionMult == [num |-> 1, den |-> 1]

TuningMult == [num |-> 4, den |-> 5]

\* the compiled graphs and the timesteps go to the hpu whatever the device is
HpuMissing == cfg.use_torch_compile /\ cfg.device # "hpu"

\* ------------------------------------------------------------ Init
\* the strings of at most MaxArgLen words and separators, no two words adjacent
ArgStrings(words) ==
    {s \in UNION {[1 .. n -> words \cup {"|"}] : n \in 0 .. MaxArgLen} :
        \A i \in 1 .. (Len(s) - 1) : s[i] = "|" \/ s[i + 1] = "|"}

\* the string "|".join of n copies of a word
RECURSIVE Repeat(_, _)
Repeat(word, n) ==
    IF n = 0 THEN <<>>
    ELSE IF n = 1 THEN <<word>> ELSE <<word, "|">> \o Repeat(word, n - 1)

\* "".join(tokens)
RECURSIVE Join(_)
Join(tokens) == IF Len(tokens) = 0 THEN "" ELSE Head(tokens) \o Join(Tail(tokens))

ClassTokenProxy(proxy, tokens) == IF proxy # "None" THEN proxy ELSE Join(tokens)

\* if proxy_token is not None: class_token = proxy_token
\* class_token = "".join(initializer_tokens)
\* (the second assignment overwrites the first)
ClassToken(proxy, tokens) ==
    LET class_token_1 == IF proxy # "None" THEN proxy ELSE ""
        class_token_2 == Join(tokens)
    IN class_token_2

\* str.lower() on one character
LowerChar(c) ==
    CASE c = "D" -> "d" [] c = "P" -> "p" [] c = "N" -> "n" [] c = "G" -> "g"
      [] OTHER -> c

\* file.lower()
Lower(file) == [i \in DOMAIN file |-> LowerChar(file[i])]

\* file.endswith(suffix)
EndsWith(file, suffix) ==
    /\ Len(suffix) <= Len(file)
    /\ SubSeq(file, Len(file) - Len(suffix) + 1, Len(file)) = suffix

\* the filter of train_inversion's evaluation block
IsImageInversion(file) ==
    \/ EndsWith(Lower(file), <<".", "p", "n", "g">>)
    \/ EndsWith(Lower(file), <<".", "j", "p", "g">>)
    \/ EndsWith(Lower(file), <<".", "j", "p", "e", "g">>)

\* the filter of perform_tuning's evaluation block
IsImageTuning(file) ==
    \/ EndsWith(file, <<".", "p", "n", "g">>)
    \/ EndsWith(file, <<".", "j", "p", "g">>)

\* images = []; for file in os.listdir(...): if <filter>: images.append(...)
ImagesInversion(listing) == SelectSeq(listing, IsImageInversion)
ImagesTuning(listing) == SelectSeq(listing, IsImageTuning)

\* F.interpolate(mask, size=model_pred.shape[-2:], mode="nearest")
Interpolate(m) == [i \in 1 .. (Len(m) \div MaskFactor) |-> m[(i - 1) * MaskFactor + 1]]

RECURSIVE Pow(_, _)
\* x.pow(t) for a whole t
Pow(x, t) == IF t = 0 THEN 1 ELSE x * Pow(x, t - 1)

Unfloored(v) == v

\* mask + 0.01, in hundredths
Floored(v) == v + 1

\* ((mask + 0.01) ** mask_temperature) / max: the weight of every location as
\* a fraction num / den
MaskWeight(m, temperature) ==
    LET powed == [i \in DOMAIN Interpolate(m) |->
                     Pow(Floored(Interpolate(m)[i]), temperature)]
        max == CHOOSE v \in {powed[i] : i \in DOMAIN powed} :
                   \A i \in DOMAIN powed : powed[i] <= v
    IN [i \in DOMAIN powed |-> [num |-> powed[i], den |-> max]]

Configs ==
    [num_steps_ti : 0 .. MaxStepsTi,
     num_steps_tuning : 0 .. MaxStepsTuning,
     loader_len : 1 .. MaxLoaderLen,
     accum_iter : 1 .. MaxAccum,
     save_steps : 1 .. MaxSaveSteps,
     placeholder_tokens : ArgStrings(PlaceholderWords),
     initializer_given : BOOLEAN,
     initializer_tokens : ArgStrings(InitializerWords),
     clip_ti_decay : BOOLEAN,
     perform_inversion : BOOLEAN,
     continue_inversion : BOOLEAN,
     log_wandb : BOOLEAN,
     log_tb : BOOLEAN,
     device : Devices,
     use_torch_compile : BOOLEAN,
     cached_latents : BOOLEAN,
     train_inpainting : BOOLEAN,
     num_train_timesteps : 2 .. MaxTimesteps,
     train_batch_size : 1 .. MaxBatch,
     out_name : OutNames,
     proxy_token : ProxyTokens,
     listing : Listings,
     mask : Masks,
     mask_temperature : 1 .. MaxTemperature]

\* the runs of the loops: train's default execution flags on the cpu, cached
\* latents, no inpainting, one placeholder token initialised to <zero>
\* (arguments that a run never reads are left at one value: those of the
\* inversion when perform_inversion is false, continue_inversion when the tuning
\* has no step); and, over loops of at most one step, the two placeholder
\* tokens "<a>|<b>" with the initializer <rand-0.017> for both
LoopConfigs ==
    {c \in [num_steps_ti : 0 .. MaxStepsTi,
            num_steps_tuning : 0 .. MaxStepsTuning,
            loader_len : 1 .. MaxLoaderLen,
            accum_iter : 1 .. MaxAccum,
            save_steps : 1 .. MaxSaveSteps,
            placeholder_tokens : {<<"<a>">>, <<"<a>", "|", "<b>">>},
            initializer_given : {TRUE},
            initializer_tokens : {<<"<zero>">>, Repeat("<rand-0.017>", 2)},
            clip_ti_decay : BOOLEAN,
            perform_inversion : BOOLEAN,
            continue_inversion : BOOLEAN,
            log_wandb : {FALSE},
            log_tb : BOOLEAN,
            device : {"cpu"},
            use_torch_compile : {FALSE},
            cached_latents : {TRUE},
            train_inpainting : {FALSE},
            num_train_timesteps : {2},
            train_batch_size : {1},
            out_name : {"final_lora"},
            proxy_token : {"person"},
            listing : {<<>>},
            mask : {<<>>},
            mask_temperature : {1}] :
        /\ (~c.perform_inversion =>
                c.num_steps_ti = 0 /\ c.accum_iter = 1 /\ c.clip_ti_decay)
        /\ (c.num_steps_tuning = 0 => ~c.continue_inversion)
        /\ \/ /\ c.placeholder_tokens = <<"<a>">>
              /\ c.initializer_tokens = <<"<zero>">>
           \/ /\ c.placeholder_tokens = <<"<a>", "|", "<b>">>
              /\ c.initializer_tokens = Repeat("<rand-0.017>", 2)
              /\ c.num_steps_ti <= 1 /\ c.num_steps_tuning <= 1
              /\ c.loader_len = 1 /\ c.accum_iter = 1 /\ c.save_steps = 1
              /\ c.clip_ti_decay /\ c.perform_inversion /\ ~c.continue_inversion}

\* the execution configurations, over short loops
ExecConfigs ==
    [num_steps_ti : 0 .. ExecMaxSteps,
     num_steps_tuning : 0 .. ExecMaxSteps,
     loader_len : {1},
     accum_iter : {1},
     save_steps : {1},
     placeholder_tokens : {<<"<a>">>},
     initializer_given : {TRUE},
     initializer_tokens : {<<"<zero>">>},
     clip_ti_decay : {TRUE},
     perform_inversion : BOOLEAN,
     continue_inversion : {FALSE},
     log_wandb : BOOLEAN,
     log_tb : BOOLEAN,
     device : Devices,
     use_torch_compile : BOOLEAN,
     cached_latents : BOOLEAN,
     train_inpainting : {FALSE},
     num_train_timesteps : {2},
     train_batch_size : {1},
     out_name : OutNames,
     proxy_token : {"person"},
     listing : {<<>>},
     mask : {<<>>},
     mask_temperature : {1}]

\* the token arguments, over loops of one step on the cpu
TokenConfigs ==
    [num_steps_ti : {1},
     num_steps_tuning : {1},
     loader_len : {1},
     accum_iter : {1},
     save_steps : {1},
     placeholder_tokens : ArgStrings(PlaceholderWords),
     initializer_given : BOOLEAN,
     initializer_tokens : ArgStrings(InitializerWords),
     clip_ti_decay : {TRUE},
     perform_inversion : {TRUE},
     continue_inversion : {FALSE},
     log_wandb : {FALSE},
     log_tb : {TRUE},
     device : {"cpu"},
     use_torch_compile : {FALSE},
     cached_latents : {TRUE},
     train_inpainting : {FALSE},
     num_train_timesteps : {2},
     train_batch_size : {1},
     out_name : {"final_lora"},
     proxy_token : {"person"},
     listing : {<<>>},
     mask : {<<>>},
     mask_temperature : {1}]

\* the data configurations, over short loops on the cpu
DataConfigs ==
    [num_steps_ti : 0 .. ExecMaxSteps,
     num_steps_tuning : 0 .. ExecMaxSteps,
     loader_len : 1 .. MaxLoaderLen,
     accum_iter : {1},
     save_steps : {1},
     placeholder_tokens : {<<"<a>">>},
     initializer_given : {TRUE},
     initializer_tokens : {<<"<zero>">>},
     clip_ti_decay : {TRUE},
     perform_inversion : {TRUE},
     continue_inversion : {FALSE},
     log_wandb : {FALSE},
     log_tb : {TRUE},
     device : {"cpu"},
     use_torch_compile : {FALSE},
     cached_latents : BOOLEAN,
     train_inpainting : BOOLEAN,
     num_train_timesteps : 2 .. MaxTimesteps,
     train_batch_size : 1 .. MaxBatch,
     out_name : {"final_lora"},
     proxy_token : {"person"},
     listing : {<<>>},
     mask : {<<>>},
     mask_temperature : {1}]

\* the further arguments, over loops of one step on the cpu: the supervision
\* mask and its temperature; proxy_token and the initializer tokens; the
\* listing of the image directory (one group at a time away from its default)
ArgConfigs ==
    {c \in [num_steps_ti : {1},
            num_steps_tuning : {1},
            loader_len : {1},
            accum_iter : {1},
            save_steps : {1},
            placeholder_tokens : {<<"<a>">>, <<"<a>", "|", "<b>">>},
            initializer_given : BOOLEAN,
            initializer_tokens : {<<"<zero>">>, <<"cat">>, <<"cat", "|", "<zero>">>},
            clip_ti_decay : {TRUE},
            perform_inversion : {TRUE},
            continue_inversion : {FALSE},
            log_wandb : {FALSE},
            log_tb : {TRUE},
            device : {"cpu"},
            use_torch_compile : {FALSE},
            cached_latents : {TRUE},
            train_inpainting : {FALSE},
            num_train_timesteps : {2},
            train_batch_size : {1},
            out_name : {"final_lora"},
            proxy_token : ProxyTokens,
            listing : Listings,
            mask : Masks,
            mask_temperature : 1 .. MaxTemperature] :
        LET tokens == /\ c.placeholder_tokens = <<"<a>">>
                      /\ c.initializer_given
                      /\ c.initializer_tokens = <<"<zero>">>
                      /\ c.proxy_token = "person"
            images == c.listing = <<>>
            masks == c.mask = <<>> /\ c.mask_temperature = 1
        IN \/ tokens /\ images
           \/ tokens /\ masks
           \/ images /\ masks}

InitWith(configs, lazy, fused) ==
    /\ cfg \in configs
    /\ use_lazy_mode \in lazy
    /\ use_fused_clip_norm \in fused
    /\ htcore = FALSE
    /\ pc = "startup"
    /\ error = ""
    /\ global_step = 0
    /\ epoch = 0
    /\ batch_idx = 0
    /\ weight = [r \in Rows(0) |-> BaseRow(r)]
    /\ pretrained = weight
    /\ orig_embeds_params = weight
    /\ index_no_updates = [r \in Rows(0) |-> TRUE]
    /\ grad_passes = 0
    /\ last_lr = 0
    /\ sched_steps = 0
    /\ pre_norm_bound = FALSE
    /\ pre_norm = [r \in {} |-> 0]
    /\ lambda_ = 0
    /\ pending_reset = FALSE
    /\ lora = -1
    /\ emb_in_optimizer = FALSE
    /\ fused_clip_norm_bound = FALSE
    /\ grad_clipped = FALSE
    /\ steps_done = [ti |-> 0, tuning |-> 0]
    /\ writes = <<>>
    /\ last_saved = [path |-> Path("", -1), emb |-> weight, lora |-> -1]
    /\ evals = <<>>
    /\ placeholder_tokens = <<>>
    /\ initializer_tokens = <<>>
    /\ placeholder_token_ids = <<>>
    /\ models = "none"
    /\ wandb_run = FALSE
    /\ writer = "none"
    /\ dataset = [i \in 1 .. (cfg.loader_len * cfg.train_batch_size) |-> Pixels]
    /\ vae_calls = 0
    /\ latents = <<>>
    /\ masked_image_latents = <<>>
    /\ timesteps = <<>>
    /\ train_dataloader = "none"
    /\ loss_mask = <<>>
    /\ class_token = ""
    /\ target_images = [ti |-> <<>>, tuning |-> <<>>]

\* ------------------------------------------------------------ loss_step
TimestepBoundCeil(T, mult) == (T * mult.num + mult.den - 1) \div mult.den

\* int(scheduler.config.num_train_timesteps * t_mutliplier)
TimestepBound(T, mult) == (T * mult.num) \div mult.den

\* vae.encode(batch[...]).latent_dist.sample() * 0.18215
EncodeBatch(b) == [j \in DOMAIN b |-> Scale(VaeEncode(b[j]))]

\* loss_step from its entry to the sampling of the timesteps: the latents of
\* the batch, the masked image latents of an inpainting batch, one timestep per
\* batch element
LossStepSample(mult, next_pc) ==
    IF HpuMissing
    THEN /\ Abort("hpu backend on a device that is not hpu")
         /\ UNCHANGED <<vae_calls, latents, masked_image_latents, timesteps>>
    ELSE IF cfg.cached_latents /\ cfg.train_inpainting
    THEN /\ Abort("KeyError: masked_image_latents")
         /\ latents' = Batch(batch_idx)
         /\ UNCHANGED <<vae_calls, masked_image_latents, timesteps>>
    ELSE /\ latents' = IF cfg.cached_latents THEN Batch(batch_idx)
                       ELSE EncodeBatch(Batch(batch_idx))
         /\ masked_image_latents' =
                IF cfg.train_inpainting
                THEN EncodeBatch([j \in 1 .. cfg.train_batch_size |-> Pixels])
                ELSE <<>>
         /\ vae_calls' = vae_calls + (IF cfg.cached_latents THEN 0
                                      ELSE IF cfg.train_inpainting THEN 2 ELSE 1)
         /\ timesteps' \in [1 .. Len(latents') ->
                               0 .. (TimestepBound(cfg.num_train_timesteps, mult) - 1)]
         /\ pc' = next_pc
         /\ UNCHANGED error

\* the rest of loss_step: the weight of a batch that carries a mask is
\* multiplied into prediction and target; loss_step returns, its locals are gone
LossStepReturn(mask_temperature) ==
    /\ loss_mask' = IF cfg.mask = <<>> THEN <<>>
                    ELSE MaskWeight(cfg.mask, mask_temperature)
    /\ latents' = <<>>
    /\ masked_image_latents' = <<>>
    /\ timesteps' = <<>>

\* ------------------------------------------------------------ train: startup
\* the execution-mode block at the head of train
train_startup ==
    /\ pc = "startup"
    /\ LET lazy1 == IF cfg.use_torch_compile /\ cfg.device # "hpu"
                    THEN FALSE ELSE use_lazy_mode
       IN IF cfg.use_torch_compile /\ lazy1
          THEN /\ Abort("use_torch_compile and use_lazy_mode")
               /\ use_lazy_mode' = lazy1
               /\ UNCHANGED <<use_fused_clip_norm, htcore>>
          ELSE /\ IF cfg.device = "hpu"
                  THEN /\ htcore' = ~(~lazy1 /\ ~cfg.use_torch_compile)
                       /\ use_lazy_mode' = lazy1
                       /\ UNCHANGED use_fused_clip_norm
                  ELSE /\ htcore' = FALSE
                       /\ use_lazy_mode' = FALSE
                       /\ use_fused_clip_norm' = FALSE
               /\ pc' = "logging"
               /\ UNCHANGED error
    /\ UNCHANGED <<cfg, lossVars, evalVars, tokVars, logVars, dataVars, loopVars,
                   embVars, grad_passes, last_lr, sched_steps, invVars, tuneVars,
                   steps_done, outVars>>

\* torch.manual_seed, wandb.init or the SummaryWriter, os.makedirs
train_init_logging ==
    /\ pc = "logging"
    /\ wandb_run' = cfg.log_wandb
    /\ writer' = IF ~cfg.log_wandb /\ cfg.log_tb THEN "open" ELSE "none"
    /\ pc' = "tokens"
    /\ UNCHANGED <<cfg, lossVars, evalVars, tokVars, dataVars, execVars, error,
                   loopVars, embVars, grad_passes, last_lr, sched_steps, invVars,
                   tuneVars, steps_done, outVars>>

\* the split of the two token arguments and the two assertions on the lists
train_parse_tokens ==
    /\ pc = "tokens"
    /\ LET ptoks == IF Len(cfg.placeholder_tokens) = 0 THEN <<>>
                    ELSE Split(cfg.placeholder_tokens)
           itoks == IF ~cfg.initializer_given
                    THEN [i \in 1 .. Len(ptoks) |-> "<rand-0.017>"]
                    ELSE Split(cfg.initializer_tokens)
       IN /\ placeholder_tokens' = ptoks
          /\ IF Len(cfg.placeholder_tokens) # 0 /\ ~IsSorted(ptoks)
             THEN /\ Abort("AssertionError: Placeholder tokens should be sorted")
                  /\ UNCHANGED <<initializer_tokens, class_token>>
             ELSE /\ initializer_tokens' = itoks
                  /\ IF Len(itoks) # Len(ptoks)
                     THEN /\ Abort("AssertionError: Unequal Initializer token")
                          /\ UNCHANGED class_token
                     ELSE /\ class_token' = ClassToken(cfg.proxy_token, itoks)
                          /\ pc' = "get_models"
                          /\ UNCHANGED error
    /\ UNCHANGED <<cfg, lossVars, target_images, placeholder_token_ids, models, logVars,
                   dataVars, execVars, loopVars, embVars, grad_passes, last_lr,
                   sched_steps, invVars, tuneVars, steps_done, outVars>>

\* why get_models raises on a token, "" when it does not: tokenizer.add_tokens
\* added nothing, or the initializer is neither special nor a single token
TokenError(ptoks, itoks, i, empty_added) ==
    IF \/ \E j \in 1 .. (i - 1) : ptoks[j] = ptoks[i]
       \/ ptoks[i] = "" /\ ~empty_added
    THEN "ValueError: The tokenizer already contains the token"
    ELSE IF StartsWithRand(itoks[i]) \/ itoks[i] = "<zero>" THEN ""
    ELSE IF Len(Encode(itoks[i])) > 1
    THEN "ValueError: The initializer token must be a single token."
    ELSE IF Len(Encode(itoks[i])) = 0 THEN "IndexError: list index out of range"
    ELSE ""

InitRowIgnoresSigma(w, tok, g) ==
    IF StartsWithRand(tok) THEN g
    ELSE IF tok = "<zero>" THEN 0
    ELSE w[Encode(tok)[1]]

\* the row get_models writes for a placeholder token
InitRow(w, tok, g) ==
    IF StartsWithRand(tok) THEN g * Sigma(tok)
    ELSE IF tok = "<zero>" THEN 0
    ELSE w[Encode(tok)[1]]

\* get_models: the tokenizer and the text encoder are loaded, then one row is
\* added and initialised per placeholder token (whether the tokenizer adds an
\* empty token is left open), then the vae and the unet are loaded
get_models ==
    /\ pc = "get_models"
    /\ \E empty_added \in BOOLEAN,
          g \in [1 .. Len(placeholder_tokens) -> GaussVals] :
        LET n == Len(placeholder_tokens)
            bad == {i \in 1 .. n : TokenError(placeholder_tokens, initializer_tokens,
                                              i, empty_added) # ""}
            first == CHOOSE i \in bad : \A j \in bad : i <= j
        IN IF bad # {}
           THEN /\ models' = "loading"
                /\ Abort(TokenError(placeholder_tokens, initializer_tokens,
                                    first, empty_added))
                /\ UNCHANGED <<weight, pretrained, placeholder_token_ids>>
           ELSE /\ models' = "returned"
                /\ weight' = [r \in Rows(n) |->
                                IF r < BaseVocab THEN weight[r]
                                ELSE InitRow(weight, initializer_tokens[r - BaseVocab + 1],
                                             g[r - BaseVocab + 1])]
                /\ pretrained' = weight'
                /\ placeholder_token_ids' = [i \in 1 .. n |-> BaseVocab + i - 1]
                /\ pc' = "loader"
                /\ UNCHANGED error
    /\ UNCHANGED <<cfg, lossVars, evalVars, placeholder_tokens, initializer_tokens,
                   logVars, dataVars, execVars, loopVars, orig_embeds_params,
                   index_no_updates, grad_passes, last_lr, sched_steps, invVars,
                   tuneVars, steps_done, outVars>>

CachedItemUnscaled(x) == VaeEncode(x)

\* text2img_dataloader with cached_latents: the image is encoded and scaled
CachedItem(x) == Scale(VaeEncode(x))

NotCachedAlways(cached) == TRUE

\* assert not cached_latents
NotCached(cached) == ~cached

\* the data loader: inpainting_dataloader, or text2img_dataloader which encodes
\* every image of the dataset when cached_latents
train_build_loader ==
    /\ pc = "loader"
    /\ IF cfg.train_inpainting
       THEN IF ~NotCached(cfg.cached_latents)
            THEN /\ Abort("AssertionError: Cached latents not supported for inpainting")
                 /\ UNCHANGED <<dataset, vae_calls, train_dataloader>>
            ELSE /\ train_dataloader' = "inpainting"
                 /\ pc' = "setup"
                 /\ UNCHANGED <<error, dataset, vae_calls>>
       ELSE IF cfg.cached_latents
       THEN IF HpuMissing
            THEN /\ Abort("hpu backend on a device that is not hpu")
                 /\ UNCHANGED <<dataset, vae_calls, train_dataloader>>
            ELSE /\ dataset' = [i \in DOMAIN dataset |-> CachedItem(dataset[i])]
                 /\ vae_calls' = vae_calls + Len(dataset)
                 /\ train_dataloader' = "text2img"
                 /\ pc' = "setup"
                 /\ UNCHANGED error
       ELSE /\ train_dataloader' = "text2img"
            /\ pc' = "setup"
            /\ UNCHANGED <<error, dataset, vae_calls>>
    /\ UNCHANGED <<cfg, loss_mask, evalVars, tokVars, logVars, latents,
                   masked_image_latents, timesteps, execVars, loopVars, embVars,
                   grad_passes, last_lr, sched_steps, invVars, tuneVars, steps_done,
                   outVars>>

\* index_no_updates, the permanently frozen parameters, and the branch on
\* perform_inversion
train_setup ==
    /\ pc = "setup"
    /\ index_no_updates' = [r \in DOMAIN weight |->
                               \A i \in DOMAIN placeholder_token_ids :
                                   placeholder_token_ids[i] # r]
    /\ pc' = IF cfg.perform_inversion THEN "ti_begin" ELSE "inject"
    /\ UNCHANGED <<cfg, lossVars, evalVars, tokVars, logVars, dataVars, execVars, error,
                   loopVars, weight, pretrained, orig_embeds_params, grad_passes,
                   last_lr, sched_steps, invVars, tuneVars, steps_done, outVars>>

\* ------------------------------------------------------------ train_inversion
\* entry of train_inversion: global_step = 0, the clone of the table
ti_begin ==
    /\ pc = "ti_begin"
    /\ global_step' = 0
    /\ epoch' = 0
    /\ batch_idx' = 0
    /\ sched_steps' = 0
    /\ orig_embeds_params' = weight
    /\ pc' = "ti_epoch"
    /\ UNCHANGED <<cfg, lossVars, evalVars, tokVars, logVars, dataVars, execVars, error,
                   weight, pretrained, index_no_updates, grad_passes, last_lr, invVars,
                   tuneVars, steps_done, outVars>>

\* for epoch in range(math.ceil(num_steps / len(dataloader)))
ti_epoch ==
    /\ pc = "ti_epoch"
    /\ IF epoch < NumEpochs(cfg.num_steps_ti, cfg.loader_len)
       THEN /\ pc' = "ti_batch"
            /\ batch_idx' = 0
       ELSE /\ pc' = "ti_return"
            /\ UNCHANGED batch_idx
    /\ UNCHANGED <<cfg, lossVars, evalVars, tokVars, logVars, dataVars, execVars, error,
                   global_step, epoch, embVars, grad_passes, last_lr, sched_steps,
                   invVars, tuneVars, steps_done, outVars>>

ti_batch_sched_at_boundary ==
    /\ pc = "ti_batch"
    /\ IF batch_idx < cfg.loader_len
       THEN /\ batch_idx' = batch_idx + 1
            /\ \E lr \in LrVals : last_lr' = lr
            /\ sched_steps' = IF AccumBoundary(global_step, cfg.accum_iter)
                              THEN sched_steps + 1 ELSE sched_steps
            /\ pc' = "ti_loss"
            /\ UNCHANGED epoch
       ELSE /\ epoch' = epoch + 1
            /\ pc' = "ti_epoch"
            /\ UNCHANGED <<batch_idx, last_lr, sched_steps>>
    /\ UNCHANGED <<cfg, lossVars, evalVars, tokVars, logVars, dataVars, execVars, error,
                   global_step, embVars, grad_passes, invVars, tuneVars, steps_done,
                   outVars>>

\* for batch in dataloader: the next batch, lr_scheduler.step()
ti_batch ==
    /\ pc = "ti_batch"
    /\ IF batch_idx < cfg.loader_len
       THEN /\ batch_idx' = batch_idx + 1
            /\ \E lr \in LrVals : last_lr' = lr
            /\ sched_steps' = sched_steps + 1
            /\ pc' = "ti_loss"
            /\ UNCHANGED epoch
       ELSE /\ epoch' = epoch + 1
            /\ pc' = "ti_epoch"
            /\ UNCHANGED <<batch_idx, last_lr, sched_steps>>
    /\ UNCHANGED <<cfg, lossVars, evalVars, tokVars, logVars, dataVars, execVars, error,
                   global_step, embVars, grad_passes, invVars, tuneVars, steps_done,
                   outVars>>

\* loss_step(..., mixed_precision=False): latents and timesteps (t_mutliplier
\* is left at its default)
ti_loss_step ==
    /\ pc = "ti_loss"
    /\ LossStepSample(InversionMult, "ti_fwd")
    /\ UNCHANGED <<cfg, lossVars, evalVars, tokVars, logVars, dataset, execVars,
                   loopVars, embVars, grad_passes, last_lr, sched_steps, invVars,
                   tuneVars, steps_done, outVars>>

\* the rest of loss_step (noise, prediction, loss) / accum_iter, loss.backward()
ti_backward ==
    /\ pc = "ti_fwd"
    /\ LossStepReturn(DefaultMaskTemperature)
    /\ grad_passes' = grad_passes + 1
    /\ pc' = IF AccumBoundary(global_step, cfg.accum_iter) THEN "ti_opt" ELSE "ti_inc"
    /\ UNCHANGED <<cfg, train_dataloader, evalVars, tokVars, logVars, dataset,
                   vae_calls, execVars, error, loopVars, embVars, last_lr, sched_steps,
                   invVars, tuneVars, steps_done, outVars>>

ti_optimizer_step_no_post ==
    /\ pc = "ti_opt"
    /\ \E w \in OptimizerOutcomes(weight, index_no_updates) : weight' = w
    /\ grad_passes' = 0
    /\ pending_reset' = TRUE
    /\ pc' = "ti_inc"
    /\ UNCHANGED <<cfg, lossVars, evalVars, tokVars, logVars, dataVars, execVars, error,
                   loopVars, pretrained, orig_embeds_params, index_no_updates, last_lr,
                   sched_steps, pre_norm_bound, pre_norm, lambda_, tuneVars, steps_done,
                   outVars>>

\* optimizer.step(); optimizer.zero_grad(set_to_none=True)
ti_optimizer_step ==
    /\ pc = "ti_opt"
    /\ \E w \in OptimizerOutcomes(weight, index_no_updates) : weight' = w
    /\ grad_passes' = 0
    /\ pending_reset' = TRUE
    /\ pc' = "ti_post"
    /\ UNCHANGED <<cfg, lossVars, evalVars, tokVars, logVars, dataVars, execVars, error,
                   loopVars, pretrained, orig_embeds_params, index_no_updates, last_lr,
                   sched_steps, pre_norm_bound, pre_norm, lambda_, tuneVars, steps_done,
                   outVars>>

\* the torch.no_grad() block: renormalise the trainable rows when clip_ti_decay,
\* reset the frozen rows, then log current_norm and pre_norm
ti_post_step ==
    /\ pc = "ti_post"
    /\ LET lam == Lambda(last_lr)
           renormed == [r \in DOMAIN weight |->
                           IF cfg.clip_ti_decay /\ ~index_no_updates[r]
                           THEN Renorm(weight[r], lam) ELSE weight[r]]
           bound == pre_norm_bound \/ cfg.clip_ti_decay
       IN /\ weight' = ResetFrozen(renormed, orig_embeds_params, index_no_updates)
          /\ pre_norm_bound' = bound
          /\ IF cfg.clip_ti_decay
             THEN /\ pre_norm' = [r \in DOMAIN weight |->
                                     IF index_no_updates[r] THEN 0 ELSE Norm(weight[r])]
                  /\ lambda_' = lam
             ELSE UNCHANGED <<pre_norm, lambda_>>
          /\ pending_reset' = FALSE
          /\ IF UnboundLocal(bound)
             THEN Abort("UnboundLocalError: pre_norm")
             ELSE /\ pc' = "ti_inc"
                  /\ UNCHANGED error
    /\ UNCHANGED <<cfg, lossVars, evalVars, tokVars, logVars, dataVars, execVars,
                   loopVars, pretrained, orig_embeds_params, index_no_updates,
                   grad_passes, last_lr, sched_steps, tuneVars, steps_done, outVars>>

\* global_step += 1, then the test of save_steps
ti_inc ==
    /\ pc = "ti_inc"
    /\ global_step' = global_step + 1
    /\ pc' = IF SaveDue(global_step + 1, cfg.save_steps) THEN "ti_save" ELSE "ti_log"
    /\ UNCHANGED <<cfg, lossVars, evalVars, tokVars, logVars, dataVars, execVars, error,
                   epoch, batch_idx, embVars, grad_passes, last_lr, sched_steps,
                   invVars, tuneVars, steps_done, outVars>>

\* save_all(..., step_inv_{global_step}, save_lora=False)
ti_save ==
    /\ pc = "ti_save"
    /\ SaveAll("step_inv", global_step, FALSE)
    /\ pc' = IF Logging THEN "ti_eval" ELSE "ti_log"
    /\ UNCHANGED <<cfg, lossVars, evalVars, tokVars, logVars, dataVars, execVars, error,
                   loopVars, embVars, grad_passes, last_lr, sched_steps, invVars,
                   tuneVars, steps_done, evals>>

\* if log_wandb or log_tb: evaluate_pipe(...)
ti_eval ==
    /\ pc = "ti_eval"
    /\ target_images' = [target_images EXCEPT !.ti = ImagesInversion(cfg.listing)]
    /\ evals' = Append(evals, EvaluatePipe("ti"))
    /\ pc' = "ti_log"
    /\ UNCHANGED <<cfg, lossVars, class_token, tokVars, logVars, dataVars, execVars,
                   error, loopVars, embVars, grad_passes, last_lr, sched_steps, invVars,
                   tuneVars, steps_done, writes, last_saved>>

\* the logging tail of the loop body and: if global_step >= num_steps: break
ti_log ==
    /\ pc = "ti_log"
    /\ steps_done' = [steps_done EXCEPT !.ti = @ + 1]
    /\ IF BreakCond(global_step, cfg.num_steps_ti)
       THEN /\ epoch' = epoch + 1
            /\ pc' = "ti_epoch"
       ELSE /\ pc' = "ti_batch"
            /\ UNCHANGED epoch
    /\ UNCHANGED <<cfg, lossVars, evalVars, tokVars, logVars, dataVars, execVars, error,
                   global_step, batch_idx, embVars, grad_passes, last_lr, sched_steps,
                   invVars, tuneVars, outVars>>

ti_return_to_close ==
    /\ pc = "ti_return"
    /\ pc' = "close"
    /\ pre_norm_bound' = FALSE
    /\ pre_norm' = [r \in DOMAIN weight |-> 0]
    /\ lambda_' = 0
    /\ last_lr' = 0
    /\ UNCHANGED <<cfg, lossVars, evalVars, tokVars, logVars, dataVars, execVars, error,
                   loopVars, embVars, grad_passes, sched_steps, pending_reset, tuneVars,
                   steps_done, outVars>>

\* train_inversion returns, its locals pre_norm and lambda_ go with its frame;
\* del ti_optimizer (the inversion scheduler is not read again)
ti_return ==
    /\ pc = "ti_return"
    /\ pc' = "inject"
    /\ pre_norm_bound' = FALSE
    /\ pre_norm' = [r \in DOMAIN weight |-> 0]
    /\ lambda_' = 0
    /\ last_lr' = 0
    /\ UNCHANGED <<cfg, lossVars, evalVars, tokVars, logVars, dataVars, execVars, error,
                   loopVars, embVars, grad_passes, sched_steps, pending_reset, tuneVars,
                   steps_done, outVars>>

\* ------------------------------------------------------------ train: transition
\* inject_trainable_lora, the parameter groups of the tuning optimizer, the
\* optimizer and its scheduler
train_inject ==
    /\ pc = "inject"
    /\ lora' = 0
    /\ emb_in_optimizer' = cfg.continue_inversion
    /\ pc' = "tu_begin"
    /\ UNCHANGED <<cfg, lossVars, evalVars, tokVars, logVars, dataVars, execVars, error,
                   loopVars, embVars, grad_passes, last_lr, sched_steps, invVars,
                   fused_clip_norm_bound, grad_clipped, steps_done, outVars>>

\* ------------------------------------------------------------ perform_tuning
\* entry of perform_tuning: global_step = 0, the fused clipper when
\* use_fused_clip_norm and htcore
tu_begin ==
    /\ pc = "tu_begin"
    /\ global_step' = 0
    /\ epoch' = 0
    /\ batch_idx' = 0
    /\ sched_steps' = 0
    /\ fused_clip_norm_bound' = (use_fused_clip_norm /\ htcore)
    /\ pc' = "tu_epoch"
    /\ UNCHANGED <<cfg, lossVars, evalVars, tokVars, logVars, dataVars, execVars, error,
                   embVars, grad_passes, last_lr, invVars, lora, emb_in_optimizer,
                   grad_clipped, steps_done, outVars>>

\* for epoch in range(math.ceil(num_steps / len(dataloader)))
tu_epoch ==
    /\ pc = "tu_epoch"
    /\ IF epoch < NumEpochs(cfg.num_steps_tuning, cfg.loader_len)
       THEN /\ pc' = "tu_batch"
            /\ batch_idx' = 0
       ELSE /\ pc' = "tu_final"
            /\ UNCHANGED batch_idx
    /\ UNCHANGED <<cfg, lossVars, evalVars, tokVars, logVars, dataVars, execVars, error,
                   global_step, epoch, embVars, grad_passes, last_lr, sched_steps,
                   invVars, tuneVars, steps_done, outVars>>

\* for batch in dataloader: the next batch, lr_scheduler_lora.step(),
\* optimizer.zero_grad()
tu_batch ==
    /\ pc = "tu_batch"
    /\ IF batch_idx < cfg.loader_len
       THEN /\ batch_idx' = batch_idx + 1
            /\ sched_steps' = sched_steps + 1
            /\ grad_passes' = IF emb_in_optimizer THEN 0 ELSE grad_passes
            /\ pc' = "tu_loss"
            /\ UNCHANGED epoch
       ELSE /\ epoch' = epoch + 1
            /\ pc' = "tu_epoch"
            /\ UNCHANGED <<batch_idx, sched_steps, grad_passes>>
    /\ UNCHANGED <<cfg, lossVars, evalVars, tokVars, logVars, dataVars, execVars, error,
                   global_step, embVars, last_lr, invVars, tuneVars, steps_done,
                   outVars>>

\* loss_step(..., t_mutliplier=0.8, mixed_precision=True): latents and timesteps
tu_loss_step ==
    /\ pc = "tu_loss"
    /\ LossStepSample(TuningMult, "tu_fwd")
    /\ UNCHANGED <<cfg, lossVars, evalVars, tokVars, logVars, dataset, execVars,
                   loopVars, embVars, grad_passes, last_lr, sched_steps, invVars,
                   tuneVars, steps_done, outVars>>

\* the rest of loss_step (noise, prediction, loss), loss.backward()
tu_backward ==
    /\ pc = "tu_fwd"
    /\ LossStepReturn(cfg.mask_temperature)
    /\ grad_passes' = IF emb_in_optimizer THEN grad_passes + 1 ELSE grad_passes
    /\ grad_clipped' = FALSE
    /\ pc' = "tu_clip"
    /\ UNCHANGED <<cfg, train_dataloader, evalVars, tokVars, logVars, dataset,
                   vae_calls, execVars, error, loopVars, embVars, last_lr, sched_steps,
                   invVars, lora, emb_in_optimizer, fused_clip_norm_bound, steps_done,
                   outVars>>

\* if use_fused_clip_norm: fused_clip_norm.clip_norm(...)
\* else: torch.nn.utils.clip_grad_norm_(..., 1.0)
tu_clip ==
    /\ pc = "tu_clip"
    /\ IF use_fused_clip_norm /\ UnboundLocal(fused_clip_norm_bound)
       THEN /\ Abort("UnboundLocalError: fused_clip_norm")
            /\ UNCHANGED grad_clipped
       ELSE /\ grad_clipped' = TRUE
            /\ pc' = "tu_opt"
            /\ UNCHANGED error
    /\ UNCHANGED <<cfg, lossVars, evalVars, tokVars, logVars, dataVars, execVars,
                   loopVars, embVars, grad_passes, last_lr, sched_steps, invVars, lora,
                   emb_in_optimizer, fused_clip_norm_bound, steps_done, outVars>>

\* optimizer.step() of the tuning optimizer: the adapter parameters and, when
\* continue_inversion, the whole embedding parameter
tu_optimizer_step ==
    /\ pc = "tu_opt"
    /\ lora' = lora + 1
    /\ IF emb_in_optimizer
       THEN \E w \in OptimizerOutcomes(weight, index_no_updates) : weight' = w
       ELSE UNCHANGED weight
    /\ pc' = "tu_inc"
    /\ UNCHANGED <<cfg, lossVars, evalVars, tokVars, logVars, dataVars, execVars, error,
                   loopVars, pretrained, orig_embeds_params, index_no_updates,
                   grad_passes, last_lr, sched_steps, invVars, emb_in_optimizer,
                   fused_clip_norm_bound, grad_clipped, steps_done, outVars>>

\* global_step += 1, then the test of save_steps
tu_inc ==
    /\ pc = "tu_inc"
    /\ global_step' = global_step + 1
    /\ pc' = IF SaveDue(global_step + 1, cfg.save_steps) THEN "tu_save" ELSE "tu_log"
    /\ UNCHANGED <<cfg, lossVars, evalVars, tokVars, logVars, dataVars, execVars, error,
                   epoch, batch_idx, embVars, grad_passes, last_lr, sched_steps,
                   invVars, tuneVars, steps_done, outVars>>

\* save_all(..., step_{global_step}) and the inspect_lora diagnostics
tu_save ==
    /\ pc = "tu_save"
    /\ SaveAll("step", global_step, TRUE)
    /\ pc' = IF Logging THEN "tu_eval" ELSE "tu_log"
    /\ UNCHANGED <<cfg, lossVars, evalVars, tokVars, logVars, dataVars, execVars, error,
                   loopVars, embVars, grad_passes, last_lr, sched_steps, invVars,
                   tuneVars, steps_done, evals>>

\* if log_wandb or log_tb: evaluate_pipe(...)
tu_eval ==
    /\ pc = "tu_eval"
    /\ target_images' = [target_images EXCEPT !.tuning = ImagesTuning(cfg.listing)]
    /\ evals' = Append(evals, EvaluatePipe("tuning"))
    /\ pc' = "tu_log"
    /\ UNCHANGED <<cfg, lossVars, class_token, tokVars, logVars, dataVars, execVars,
                   error, loopVars, embVars, grad_passes, last_lr, sched_steps, invVars,
                   tuneVars, steps_done, writes, last_saved>>

\* the logging tail of the loop body and: if global_step >= num_steps: break
tu_log ==
    /\ pc = "tu_log"
    /\ steps_done' = [steps_done EXCEPT !.tuning = @ + 1]
    /\ IF BreakCond(global_step, cfg.num_steps_tuning)
       THEN /\ epoch' = epoch + 1
            /\ pc' = "tu_epoch"
       ELSE /\ pc' = "tu_batch"
            /\ UNCHANGED epoch
    /\ UNCHANGED <<cfg, lossVars, evalVars, tokVars, logVars, dataVars, execVars, error,
                   global_step, batch_idx, embVars, grad_passes, last_lr, sched_steps,
                   invVars, tuneVars, outVars>>

tu_final_skipped ==
    /\ pc = "tu_final"
    /\ IF global_step = 0
       THEN UNCHANGED <<writes, last_saved>>
       ELSE SaveAll(OutPath(cfg.out_name).stem, OutPath(cfg.out_name).n, TRUE)
    /\ pc' = "close"
    /\ UNCHANGED <<cfg, lossVars, evalVars, tokVars, logVars, dataVars, execVars, error,
                   loopVars, embVars, grad_passes, last_lr, sched_steps, invVars,
                   tuneVars, steps_done, evals>>

\* after the loops: save_all(..., {out_name}); perform_tuning returns
tu_final ==
    /\ pc = "tu_final"
    /\ SaveAll(OutPath(cfg.out_name).stem, OutPath(cfg.out_name).n, TRUE)
    /\ pc' = "close"
    /\ UNCHANGED <<cfg, lossVars, evalVars, tokVars, logVars, dataVars, execVars, error,
                   loopVars, embVars, grad_passes, last_lr, sched_steps, invVars,
                   tuneVars, steps_done, evals>>

\* if writer: writer.close(); train returns
train_close ==
    /\ pc = "close"
    /\ pc' = "done"
    /\ writer' = IF writer = "open" THEN "closed" ELSE writer
    /\ UNCHANGED <<cfg, lossVars, evalVars, tokVars, wandb_run, dataVars, execVars,
                   error, loopVars, embVars, grad_passes, last_lr, sched_steps, invVars,
                   tuneVars, steps_done, outVars>>

Next ==
    \/ train_startup
    \/ train_init_logging
    \/ train_parse_tokens
    \/ get_models
    \/ train_build_loader
    \/ train_setup
    \/ ti_begin
    \/ ti_epoch
    \/ ti_batch
    \/ ti_loss_step
    \/ ti_backward
    \/ ti_optimizer_step
    \/ ti_post_step
    \/ ti_inc
    \/ ti_save
    \/ ti_eval
    \/ ti_log
    \/ ti_return
    \/ train_inject
    \/ tu_begin
    \/ tu_epoch
    \/ tu_batch
    \/ tu_loss_step
    \/ tu_backward
    \/ tu_clip
    \/ tu_optimizer_step
    \/ tu_inc
    \/ tu_save
    \/ tu_eval
    \/ tu_log
    \/ tu_final
    \/ train_close

\* the runs of train with its default execution flags
Init == InitWith(LoopConfigs, {TRUE}, {TRUE})

Spec == Init /\ [][Next]_vars

\* the runs of train under every execution configuration, over short loops
InitExec == InitWith(ExecConfigs, BOOLEAN, BOOLEAN)

SpecExec == InitExec /\ [][Next]_vars

\* the runs of train under every pair of token arguments, over short loops
InitTokens == InitWith(TokenConfigs, {TRUE}, {TRUE})

SpecTokens == InitTokens /\ [][Next]_vars

\* the runs of train under every data configuration, over short loops
InitData == InitWith(DataConfigs, {TRUE}, {TRUE})

SpecData == InitData /\ [][Next]_vars

\* the runs over the further arguments
InitArgs == InitWith(ArgConfigs, {TRUE}, {TRUE})

SpecArgs == InitArgs /\ [][Next]_vars

\* ------------------------------------------------------------ positions
\* inside train_inversion
TiPcs == {"ti_begin", "ti_epoch", "ti_batch", "ti_loss", "ti_fwd", "ti_opt",
          "ti_post", "ti_inc", "ti_save", "ti_eval", "ti_log", "ti_return"}

\* inside perform_tuning, before its step loop is left
TuLoopPcs == {"tu_begin", "tu_epoch", "tu_batch", "tu_loss", "tu_fwd", "tu_clip",
              "tu_opt", "tu_inc", "tu_save", "tu_eval", "tu_log"}

\* after perform_tuning has written its final file
AfterTuning == {"close", "done"}

Trainable == {r \in DOMAIN index_no_updates : ~index_no_updates[r]}

Frozen == {r \in DOMAIN index_no_updates : index_no_updates[r]}

Stems(stem) == {i \in 1 .. Len(writes) : writes[i].stem = stem}

Between(x, a, b) == (a <= x /\ x <= b) \/ (b <= x /\ x <= a)

\* ------------------------------------------------------------ C1
\* C1: in train_inversion with decay enabled, outside the one position
\* between an optimizer step and the end of its post-step block, every row
\* that is not a placeholder row equals orig_embeds_params, the value it had
\* when the loop started; so does every such row of every step_inv file.
C1_FrozenRowsInversion ==
    cfg.clip_ti_decay =>
        /\ (pc \in TiPcs \ {"ti_begin", "ti_post"} =>
                \A r \in Frozen : weight[r] = orig_embeds_params[r])
        /\ (last_saved.path.stem = "step_inv" =>
                \A r \in Frozen : last_saved.emb[r] = pretrained[r])

\* an evaluation runs on a table whose placeholder rows were trained, after the
\* second step
C1_Witness ==
    /\ cfg.clip_ti_decay
    /\ pc = "ti_eval"
    /\ global_step = 2
    /\ \E r \in Trainable : weight[r] # orig_embeds_params[r]
    /\ last_saved.path = Path("step_inv", 2)

\* ------------------------------------------------------------ C2
\* C2: over a whole run of train, after every optimizer step (of either
\* phase) has completed, the rows that are not placeholder rows equal their
\* pre-training values.
C2_FrozenRowsWholeRun ==
    pc # "ti_post" => \A r \in Frozen : weight[r] = pretrained[r]

\* ------------------------------------------------------------ C3
\* C3: both loops run exactly num_steps steps: the counter never exceeds
\* num_steps, a batch is only worked on while the counter is below num_steps,
\* and a loop that is left has counted, and run to their end, num_steps steps.
C3_ExactSteps ==
    /\ (pc \in TiPcs => global_step <= cfg.num_steps_ti)
    /\ (pc \in {"ti_loss", "ti_fwd", "ti_opt", "ti_post", "ti_inc"} =>
            global_step < cfg.num_steps_ti)
    /\ (pc = "ti_return" =>
            global_step = cfg.num_steps_ti /\ steps_done.ti = cfg.num_steps_ti)
    /\ (pc \in TuLoopPcs \ {"tu_begin"} => global_step <= cfg.num_steps_tuning)
    /\ (pc \in {"tu_loss", "tu_fwd", "tu_clip", "tu_opt", "tu_inc"} =>
            global_step < cfg.num_steps_tuning)
    /\ (pc \in {"tu_final"} \cup AfterTuning =>
            /\ global_step = cfg.num_steps_tuning
            /\ steps_done.tuning = cfg.num_steps_tuning
            /\ (cfg.perform_inversion => steps_done.ti = cfg.num_steps_ti))

\* both loops have run 3 steps over a loader of 2 batches
C3_Witness ==
    /\ pc = "done"
    /\ cfg.perform_inversion
    /\ cfg.loader_len = 2
    /\ steps_done = [ti |-> 3, tuning |-> 3]

\* ------------------------------------------------------------ C4
\* C4 as stated: each phase that returns after num_steps >= 1 steps has
\* written, as its latest file, a checkpoint taken after its last step and
\* holding the state the phase ends in.
C4_CheckpointAtEndOfEachPhase ==
    /\ (pc = "ti_return" /\ cfg.num_steps_ti >= 1 =>
            /\ last_saved.path = Path("step_inv", cfg.num_steps_ti)
            /\ last_saved.emb = weight)
    /\ (pc \in AfterTuning /\ cfg.num_steps_tuning >= 1 =>
            /\ last_saved.emb = weight
            /\ last_saved.lora = lora)

\* C4 as amended: perform_tuning always ends by writing a file that holds the
\* state it ends in.  train_inversion writes step_inv_{n} exactly at the
\* multiples n of save_steps and nothing at its end: the state it ends in is
\* in a checkpoint exactly when num_steps is a multiple of save_steps.
C4_CheckpointAtEndOfTuningOnly ==
    /\ (pc \in AfterTuning =>
            /\ last_saved.path = OutPath(cfg.out_name)
            /\ last_saved.emb = weight
            /\ last_saved.lora = lora)
    /\ (pc \in {"ti_log", "ti_epoch", "ti_batch", "ti_return"} =>
            /\ Cardinality(Stems("step_inv")) = global_step \div cfg.save_steps
            /\ \A i \in Stems("step_inv") :
                    writes[i].n > 0 /\ writes[i].n % cfg.save_steps = 0)
    /\ (pc = "ti_return" /\ cfg.num_steps_ti >= 1 =>
            IF cfg.num_steps_ti % cfg.save_steps = 0
            THEN /\ last_saved.path = Path("step_inv", cfg.num_steps_ti)
                 /\ last_saved.emb = weight
            ELSE \A i \in Stems("step_inv") : writes[i].n < cfg.num_steps_ti)

\* the inversion returns with a table that its latest checkpoint does not hold
C4_Witness ==
    /\ pc = "ti_return"
    /\ cfg.num_steps_ti = 3
    /\ cfg.save_steps = 2
    /\ last_saved.path = Path("step_inv", 2)
    /\ last_saved.emb # weight

\* ------------------------------------------------------------ C5
\* C5: the {out_name} file is written exactly when perform_tuning has left
\* its step loop, once, as the last file of the run, holding the adapter and
\* embedding state left by the last optimizer step; nothing but the close of
\* the writer follows it.
C5_FinalCheckpoint ==
    /\ (Stems(cfg.out_name) # {} <=> pc \in AfterTuning)
    /\ (pc \in AfterTuning =>
            /\ Stems(cfg.out_name) = {Len(writes)}
            /\ last_saved = [path |-> OutPath(cfg.out_name), emb |-> weight,
                             lora |-> lora]
            /\ lora = cfg.num_steps_tuning
            /\ Cardinality(Stems("step")) = cfg.num_steps_tuning \div cfg.save_steps)

\* the final file follows a step_{n} file of the last step
C5_Witness ==
    /\ pc = "done"
    /\ Len(writes) >= 2
    /\ writes[Len(writes) - 1] = Path("step", cfg.num_steps_tuning)
    /\ writes[Len(writes)] = OutPath(cfg.out_name)

\* ------------------------------------------------------------ C6
\* C6: in train_inversion every optimizer step is followed at once, within
\* the same step, by the reset of the frozen rows, and no save_all or
\* evaluate_pipe call happens while a reset is pending.
C6_StepAndResetAtomic ==
    [][/\ (pc = "ti_opt" => pending_reset')
       /\ (pending_reset =>
              /\ ~pending_reset'
              /\ global_step' = global_step
              /\ \A r \in Frozen : weight'[r] = orig_embeds_params[r])
       /\ (writes' # writes \/ evals' # evals => ~pending_reset /\ ~pending_reset')
      ]_vars

\* the state between the optimizer step and the reset, with a frozen row moved
C6_Witness ==
    /\ pc = "ti_post"
    /\ pending_reset
    /\ global_step = 2
    /\ \E r \in Frozen : weight[r] # orig_embeds_params[r]

\* ------------------------------------------------------------ C7
\* C7: every optimizer step of train_inversion, the first one included, is
\* applied to the gradients of exactly accum_iter backward passes.
C7_FullAccumulationWindow ==
    pc = "ti_opt" => grad_passes = cfg.accum_iter

\* ------------------------------------------------------------ C8
\* C8: in every execution configuration that passes the startup check, every
\* tuning step clips the gradients before the optimizer step, and no run ends
\* at the clipping point for want of a clipper.
C8_ClipperAlwaysUsable ==
    /\ error # "UnboundLocalError: fused_clip_norm"
    /\ (pc = "tu_opt" => grad_clipped)

\* ------------------------------------------------------------ C9
\* C9: with clip_ti_decay false, train_inversion never gets past its first
\* accumulation boundary: the run ends there with the unbound pre_norm, at
\* global step 0, and no step_inv file is ever written.
C9_AbortWithoutDecay ==
    ~cfg.clip_ti_decay =>
        /\ Stems("step_inv") = {}
        /\ pc \notin {"ti_inc", "ti_save", "ti_eval", "ti_log"}
        /\ (pc \in TiPcs => global_step = 0)
        /\ (error = "UnboundLocalError: pre_norm" =>
                global_step = 0 /\ steps_done.ti = 0 /\ writes = <<>>)
        /\ (cfg.perform_inversion /\ cfg.num_steps_ti >= 1 =>
                pc \notin {"ti_return", "inject", "tu_final"} \cup TuLoopPcs \cup AfterTuning)

\* the run has ended at the first boundary
C9_Witness ==
    /\ ~cfg.clip_ti_decay
    /\ pc = "aborted"
    /\ error = "UnboundLocalError: pre_norm"
    /\ cfg.num_steps_ti = 3

\* ------------------------------------------------------------ C10
\* after the post-step block and until the next optimizer step
RenormVisible ==
    cfg.clip_ti_decay /\ pre_norm_bound /\ pc \in TiPcs \ {"ti_post"}

\* C10 as stated: after renormalisation the norm of each trainable row is
\* pre_norm + lambda * (0.4 - pre_norm), with lambda in [0, 1].
C10_NormIsBlend ==
    RenormVisible =>
        /\ lambda_ \in 0 .. LamDen
        /\ \A r \in Trainable :
              LamDen * Norm(weight[r]) =
                  LamDen * pre_norm[r] + lambda_ * (TargetNorm - pre_norm[r])

\* C10 as amended: lambda is in [0, 1]; a trainable row of non-zero norm gets
\* the norm pre_norm + lambda * (0.4 - pre_norm), keeping its direction; a
\* trainable row that is zero stays zero; in every case the new norm lies
\* between the old one and 0.4.
C10_NormIsBlendUnlessZero ==
    RenormVisible =>
        /\ lambda_ \in 0 .. LamDen
        /\ \A r \in Trainable :
              /\ pre_norm[r] # 0 =>
                    LamDen * Norm(weight[r]) =
                        LamDen * pre_norm[r] + lambda_ * (TargetNorm - pre_norm[r])
              /\ pre_norm[r] = 0 => weight[r] = 0
              /\ Between(Norm(weight[r]), pre_norm[r], TargetNorm)

\* a row has moved from above 0.4 part of the way to it
C10_Witness ==
    /\ RenormVisible
    /\ pc = "ti_inc"
    /\ \E r \in Trainable :
          /\ pre_norm[r] > TargetNorm
          /\ Norm(weight[r]) < pre_norm[r]
          /\ Norm(weight[r]) > TargetNorm

\* ------------------------------------------------------------ C11
\* C11: the phases of a run are ordered.  While train_inversion runs no
\* adapter exists; once the adapters are injected no position of
\* train_inversion is reached again and the count of completed inversion steps
\* is final (num_steps when perform_inversion, none otherwise); every position
\* of perform_tuning has the adapters and the tuning optimizer (which holds the
\* embedding parameters exactly when continue_inversion), and its first step
\* starts from a scheduler that was never advanced; a run that ends normally
\* has run perform_tuning to its final file, with or without inversion; the
\* writer is closed only when train is done, and is open wherever a loop runs
\* with a writer.
C11_PhasesOrdered ==
    /\ (pc \in TiPcs => lora = -1 /\ cfg.perform_inversion)
    /\ (lora >= 0 =>
            /\ pc \notin TiPcs
            /\ steps_done.ti = IF cfg.perform_inversion THEN cfg.num_steps_ti ELSE 0)
    /\ (pc \in TuLoopPcs \cup {"tu_final"} =>
            lora >= 0 /\ emb_in_optimizer = cfg.continue_inversion)
    /\ (steps_done.tuning > 0 \/ lora > 0 => lora >= 0 /\ pc \notin TiPcs)
    /\ (pc = "tu_epoch" /\ steps_done.tuning = 0 => sched_steps = 0 /\ global_step = 0)
    /\ (pc = "done" =>
            /\ steps_done.tuning = cfg.num_steps_tuning
            /\ lora = cfg.num_steps_tuning
            /\ writes # <<>> /\ writes[Len(writes)] = OutPath(cfg.out_name))
    /\ (writer = "closed" => pc = "done")
    /\ (pc \in TiPcs \cup TuLoopPcs \cup {"tu_final"} =>
            writer = IF ~cfg.log_wandb /\ cfg.log_tb THEN "open" ELSE "none")

\* a run with both phases and a writer has ended: three inversion steps, then
\* three tuning steps, then the writer closed
C11_Witness ==
    /\ pc = "done"
    /\ cfg.perform_inversion
    /\ steps_done = [ti |-> 3, tuning |-> 3]
    /\ lora = 3
    /\ writer = "closed"

\* ------------------------------------------------------------ C12
\* C12: in both loops lr_scheduler.step() is called once per step, before the
\* forward pass of the step: from the call to the increment of the step
\* counter the number of calls is one more than the counter (so it is during
\* loss_step), and from the increment to the next call, and when the loop is
\* left, it equals the counter; whatever accum_iter and save_steps are.
C12_SchedulerOncePerStep ==
    /\ (pc \in {"ti_loss", "ti_fwd", "ti_opt", "ti_post", "ti_inc"} =>
            sched_steps = global_step + 1)
    /\ (pc \in {"ti_epoch", "ti_batch", "ti_save", "ti_eval", "ti_log", "ti_return"} =>
            sched_steps = global_step)
    /\ (pc \in {"tu_loss", "tu_fwd", "tu_clip", "tu_opt", "tu_inc"} =>
            sched_steps = global_step + 1)
    /\ (pc \in {"tu_epoch", "tu_batch", "tu_save", "tu_eval", "tu_log", "tu_final"} =>
            sched_steps = global_step)

\* the third tuning step of a run whose inversion accumulated over two steps
\* and which saves every second step is in its forward pass
C12_Witness ==
    /\ pc = "tu_fwd"
    /\ global_step = 2
    /\ sched_steps = 3
    /\ steps_done.ti = 3
    /\ cfg.accum_iter = 2
    /\ cfg.save_steps = 2

\* ------------------------------------------------------------ C13
\* the lists the two token arguments stand for
PlaceholderList ==
    IF Len(cfg.placeholder_tokens) = 0 THEN <<>> ELSE Split(cfg.placeholder_tokens)

InitializerList ==
    IF cfg.initializer_given THEN Split(cfg.initializer_tokens)
    ELSE [i \in 1 .. Len(PlaceholderList) |-> "<rand-0.017>"]

\* some token of the list is followed, anywhere, by a smaller one
OutOfOrder(l) == \E i, j \in 1 .. Len(l) : i < j /\ WordRank(l[i]) > WordRank(l[j])

\* nothing of a run exists but its logger
NothingLoaded ==
    /\ models = "none"
    /\ DOMAIN weight = Rows(0)
    /\ \A i \in DOMAIN dataset : dataset[i] = Pixels
    /\ vae_calls = 0
    /\ steps_done = [ti |-> 0, tuning |-> 0]
    /\ sched_steps = 0
    /\ lora = -1
    /\ writes = <<>>

\* C13: once train is past its token assertions, a placeholder list that is
\* out of order, or a pair of lists of unequal length, has ended the run with
\* the assertion error: the list is as given (not sorted for the caller), no
\* model is loaded, no image encoded, no step run and no file written; and the
\* assertion errors end no other run.
C13_TokenListsRejected ==
    /\ (pc \notin {"startup", "logging", "tokens"} =>
            /\ (OutOfOrder(PlaceholderList) =>
                    /\ pc = "aborted"
                    /\ error = "AssertionError: Placeholder tokens should be sorted"
                    /\ placeholder_tokens = PlaceholderList
                    /\ NothingLoaded)
            /\ (~OutOfOrder(PlaceholderList)
                    /\ Len(InitializerList) # Len(PlaceholderList) =>
                    /\ pc = "aborted"
                    /\ error = "AssertionError: Unequal Initializer token"
                    /\ placeholder_tokens = PlaceholderList
                    /\ initializer_tokens = InitializerList
                    /\ NothingLoaded))
    /\ (error = "AssertionError: Placeholder tokens should be sorted" =>
            OutOfOrder(PlaceholderList))
    /\ (error = "AssertionError: Unequal Initializer token" =>
            Len(InitializerList) # Len(PlaceholderList))
    /\ (models # "none" =>
            /\ ~OutOfOrder(PlaceholderList)
            /\ Len(InitializerList) = Len(PlaceholderList))

\* the empty placeholder string with the initializer string "cat" is rejected
C13_Witness ==
    /\ cfg.placeholder_tokens = <<>>
    /\ cfg.initializer_given
    /\ cfg.initializer_tokens = <<"cat">>
    /\ pc = "aborted"
    /\ error = "AssertionError: Unequal Initializer token"
    /\ NothingLoaded

\* ------------------------------------------------------------ C14
\* an initializer that is neither of the special forms
Plain(tok) == ~StartsWithRand(tok) /\ tok # "<zero>"

\* C14: in the table get_models returns, the base rows are the pretrained
\* ones and the row of each placeholder token follows its initializer: a
\* Gaussian draw times the sigma of a <rand-sigma> initializer, zero for
\* <zero>, and otherwise the row of the one vocabulary id the initializer
\* tokenizes to.  If some initializer that is not of a special form tokenizes
\* to several ids, get_models raises and returns nothing.
C14_InitializerPolicy ==
    /\ (models = "returned" =>
            /\ Len(placeholder_token_ids) = Len(placeholder_tokens)
            /\ DOMAIN pretrained = Rows(Len(placeholder_tokens))
            /\ \A r \in Rows(0) : pretrained[r] = BaseRow(r)
            /\ \A i \in DOMAIN placeholder_token_ids :
                LET tok == initializer_tokens[i]
                    row == pretrained[placeholder_token_ids[i]]
                IN /\ (tok = "<rand-0.017>" => \E g \in GaussVals : row = g)
                   /\ (tok = "<rand-0.034>" => \E g \in GaussVals : row = 2 * g)
                   /\ (tok = "<zero>" => row = 0)
                   /\ (Plain(tok) =>
                          /\ Len(Encode(tok)) = 1
                          /\ Encode(tok)[1] \in Rows(0)
                          /\ row = BaseRow(Encode(tok)[1])))
    /\ ((/\ pc \notin {"startup", "logging", "tokens", "get_models"}
         /\ (\E i \in DOMAIN initializer_tokens :
                 Plain(initializer_tokens[i]) /\ Len(Encode(initializer_tokens[i])) > 1)
         /\ Len(initializer_tokens) = Len(placeholder_tokens)) =>
            /\ models = "loading"
            /\ pc = "aborted"
            /\ error \in {"ValueError: The initializer token must be a single token.",
                          "ValueError: The tokenizer already contains the token",
                          "IndexError: list index out of range"}
            /\ placeholder_token_ids = <<>>
            /\ DOMAIN weight = Rows(0))
    /\ (error = "ValueError: The initializer token must be a single token." =>
            \E i \in DOMAIN initializer_tokens :
                Plain(initializer_tokens[i]) /\ Len(Encode(initializer_tokens[i])) > 1)

\* get_models has returned a table for "<a>|<b>" with the initializers
\* "cat|<rand-0.034>": the first row copied, the second drawn
C14_Witness ==
    /\ models = "returned"
    /\ placeholder_tokens = <<"<a>", "<b>">>
    /\ initializer_tokens = <<"cat", "<rand-0.034>">>
    /\ pretrained[BaseVocab] = BaseRow(0)
    /\ pretrained[BaseVocab + 1] = -2

\* ------------------------------------------------------------ C15
\* C15: a run with use_torch_compile and use_lazy_mode on the hpu ends at
\* startup, before a logger exists, a model is loaded or a step is run; and
\* no run that startup accepted ends on the execution mode it was started in
\* (here: on work sent to the hpu when the device is not the hpu).
C15_ExecutionFlagsSettledAtStartup ==
    /\ (error = "use_torch_compile and use_lazy_mode" =>
            ~wandb_run /\ writer = "none" /\ NothingLoaded)
    /\ (pc # "startup" /\ cfg.use_torch_compile /\ cfg.device = "hpu" /\ use_lazy_mode =>
            error = "use_torch_compile and use_lazy_mode")
    /\ error # "hpu backend on a device that is not hpu"

\* ------------------------------------------------------------ C16
\* the inversion steps whose save test has been passed
InversionStepsSaved ==
    IF pc \in {"ti_eval", "ti_log"} THEN global_step ELSE steps_done.ti

\* C16: the step_inv files written so far are exactly step_inv_{n} for the
\* positive multiples n of save_steps up to the last step whose save test was
\* passed (at most num_steps), each written once; a step_inv file holds no
\* adapter and its table differs from the table get_models returned in
\* placeholder rows only; with two placeholder tokens, num_steps = 1 and
\* save_steps = 1 the inversion leaves exactly the file step_inv_1.
C16_InversionCheckpoints ==
    /\ InversionStepsSaved <= cfg.num_steps_ti
    /\ {writes[i].n : i \in Stems("step_inv")} =
            {n \in 1 .. InversionStepsSaved : n % cfg.save_steps = 0}
    /\ Cardinality(Stems("step_inv")) = InversionStepsSaved \div cfg.save_steps
    /\ (last_saved.path.stem = "step_inv" =>
            /\ last_saved.lora = -1
            /\ DOMAIN last_saved.emb = DOMAIN pretrained
            /\ \A r \in DOMAIN pretrained :
                   last_saved.emb[r] # pretrained[r] =>
                       \E i \in DOMAIN placeholder_token_ids :
                           placeholder_token_ids[i] = r)
    /\ ((/\ Len(placeholder_token_ids) = 2
         /\ cfg.num_steps_ti = 1
         /\ cfg.save_steps = 1
         /\ lora >= 0) =>
            \E i \in DOMAIN writes :
                /\ Stems("step_inv") = {i}
                /\ writes[i] = Path("step_inv", 1))

\* the scenario: "<a>|<b>", one inversion step, save_steps = 1; the one file
\* step_inv_1 is written and both placeholder rows in it have moved
C16_Witness ==
    /\ placeholder_tokens = <<"<a>", "<b>">>
    /\ initializer_tokens = <<"<rand-0.017>", "<rand-0.017>">>
    /\ cfg.num_steps_ti = 1
    /\ pc = "ti_log"
    /\ writes = <<Path("step_inv", 1)>>
    /\ last_saved.path = Path("step_inv", 1)
    /\ last_saved.emb[BaseVocab] # pretrained[BaseVocab]
    /\ last_saved.emb[BaseVocab + 1] # pretrained[BaseVocab + 1]
    /\ \A r \in Rows(0) : last_saved.emb[r] = pretrained[r]

\* ------------------------------------------------------------ C17
\* C17: no two save_all calls of a run write the same file.
C17_NoFileWrittenTwice ==
    \A i, j \in DOMAIN writes : i # j => writes[i] # writes[j]

\* ------------------------------------------------------------ C18
\* C18: loss_step draws one timestep per element of the batch; in
\* train_inversion each is in 0 .. T - 1, in perform_tuning each is below
\* floor(0.8 * T), i.e. 5 * (t + 1) <= 4 * T.
C18_TimestepRange ==
    /\ (pc = "ti_fwd" =>
            /\ Len(timesteps) = cfg.train_batch_size
            /\ \A j \in DOMAIN timesteps :
                   0 <= timesteps[j] /\ timesteps[j] < cfg.num_train_timesteps)
    /\ (pc = "tu_fwd" =>
            /\ Len(timesteps) = cfg.train_batch_size
            /\ \A j \in DOMAIN timesteps :
                   0 <= timesteps[j] /\ 5 * (timesteps[j] + 1) <= 4 * cfg.num_train_timesteps)
    /\ (pc \notin {"ti_fwd", "tu_fwd"} => timesteps = <<>>)

\* after one inversion step, a tuning step over batches of two with T = 3
\* has drawn the largest timestep it can, 1, and the smallest
C18_Witness ==
    /\ pc = "tu_fwd"
    /\ steps_done.ti = 1
    /\ cfg.num_train_timesteps = 3
    /\ timesteps = <<1, 0>>

\* ------------------------------------------------------------ C19
\* the loop bodies in which loss_step has been entered
StepsEntered ==
    steps_done.ti + steps_done.tuning +
        (IF pc \in (TiPcs \cup TuLoopPcs) \ {"ti_begin", "ti_epoch", "ti_batch", "ti_loss",
                                            "ti_return", "tu_begin", "tu_epoch",
                                            "tu_batch", "tu_loss"}
         THEN 1 ELSE 0)

OnceScaled == [kind |-> "latent", scaled |-> 1]

\* C19: the latents loss_step goes on with (and the masked image latents of
\* an inpainting batch) are encoded images scaled once, one per element of
\* the batch.  With cached latents every image was encoded and scaled once
\* when the loader was built and the loops add no vae.encode call; without,
\* the loader holds the images and every step calls vae.encode once (twice
\* for inpainting).
C19_LatentsScaledOnce ==
    /\ (pc \in {"ti_fwd", "tu_fwd"} =>
            /\ Len(latents) = cfg.train_batch_size
            /\ \A j \in DOMAIN latents : latents[j] = OnceScaled
            /\ (cfg.train_inpainting =>
                    /\ Len(masked_image_latents) = cfg.train_batch_size
                    /\ \A j \in DOMAIN masked_image_latents :
                           masked_image_latents[j] = OnceScaled))
    /\ (cfg.cached_latents /\ pc \in TiPcs \cup TuLoopPcs \cup {"tu_final"} \cup AfterTuning =>
            /\ \A i \in DOMAIN dataset : dataset[i] = OnceScaled
            /\ vae_calls = Len(dataset))
    /\ (~cfg.cached_latents =>
            /\ \A i \in DOMAIN dataset : dataset[i] = Pixels
            /\ vae_calls = StepsEntered * (IF cfg.train_inpainting THEN 2 ELSE 1))

\* with cached latents and batches of two, after an inversion step a tuning
\* step goes on with two latents scaled once, and vae.encode was called
\* once per image
C19_Witness ==
    /\ cfg.cached_latents
    /\ cfg.train_batch_size = 2
    /\ pc = "tu_fwd"
    /\ steps_done.ti = 1
    /\ latents = <<OnceScaled, OnceScaled>>
    /\ vae_calls = Len(dataset)

\* ------------------------------------------------------------ C20
\* the file a loop writes at a step
StepFile(phase, step) == Path(IF phase = "ti" THEN "step_inv" ELSE "step", step)

\* C20: every evaluate_pipe call was made with logging enabled, at a step
\* count that is a positive multiple of save_steps, after the file of that
\* step and phase was written: the evaluation starts from the state that file
\* holds.  With logging disabled there is no call, and a step whose count is
\* a multiple of save_steps still ends with its file written.
C20_EvaluationAfterSave ==
    /\ \A i \in DOMAIN evals :
           /\ (cfg.log_wandb \/ cfg.log_tb)
           /\ evals[i].step > 0
           /\ evals[i].step % cfg.save_steps = 0
           /\ \E j \in DOMAIN writes : writes[j] = StepFile(evals[i].phase, evals[i].step)
    /\ (~cfg.log_wandb /\ ~cfg.log_tb => evals = <<>>)
    /\ (pc \in {"ti_eval", "tu_eval"} =>
            /\ (cfg.log_wandb \/ cfg.log_tb)
            /\ global_step % cfg.save_steps = 0
            /\ writes[Len(writes)] = StepFile(IF pc = "ti_eval" THEN "ti" ELSE "tuning",
                                              global_step)
            /\ last_saved.path = writes[Len(writes)]
            /\ last_saved.emb = weight)
    /\ (pc \in {"ti_log", "tu_log"} /\ global_step % cfg.save_steps = 0 =>
            /\ writes # <<>>
            /\ writes[Len(writes)] = StepFile(IF pc = "ti_log" THEN "ti" ELSE "tuning",
                                              global_step)
            /\ (cfg.log_wandb \/ cfg.log_tb =>
                    /\ evals # <<>>
                    /\ evals[Len(evals)] = [phase |-> IF pc = "ti_log" THEN "ti" ELSE "tuning",
                                            step |-> global_step]))
    /\ (pc \in {"ti_log", "tu_log"} /\ global_step % cfg.save_steps # 0 =>
            \A i \in DOMAIN evals :
                evals[i] # [phase |-> IF pc = "ti_log" THEN "ti" ELSE "tuning",
                            step |-> global_step])

\* with logging enabled and save_steps = 2, the second tuning step evaluates
\* after step_2 was written, the inversion having evaluated at its step 2 only
C20_Witness ==
    /\ cfg.log_tb
    /\ cfg.save_steps = 2
    /\ pc = "tu_eval"
    /\ global_step = 2
    /\ steps_done.ti = 3
    /\ evals = <<[phase |-> "ti", step |-> 2]>>
    /\ writes = <<Path("step_inv", 2), Path("step", 2)>>

\* ------------------------------------------------------------ C22
\* C22: when train_inversion leaves its loop, every backward pass has been
\* followed by an optimizer step: no accumulated gradient is left unapplied,
\* for every num_steps >= 1 and accum_iter >= 1.
C22_NoGradientLeftAtExit ==
    pc = "ti_return" => grad_passes = 0

BeforeLoader == {"startup", "logging", "tokens", "get_models", "loader"}

\* C23: train never runs a training step with inpainting and cached latents
\* together: such a run is rejected by the assertion before any data loader is
\* built, and loss_step's cached inpainting branch is never reached.
C23_InpaintingCachedRejected ==
    /\ error # "KeyError: masked_image_latents"
    /\ pc \in (TiPcs \cup TuLoopPcs) => ~(cfg.train_inpainting /\ cfg.cached_latents)
    /\ (cfg.train_inpainting /\ cfg.cached_latents) =>
          /\ train_dataloader = "none"
          /\ vae_calls = 0
          /\ steps_done = [ti |-> 0, tuning |-> 0]
          /\ grad_passes = 0
          /\ \/ pc \in BeforeLoader
             \/ /\ pc = "aborted"
                /\ error = "AssertionError: Cached latents not supported for inpainting"

\* a run with both flags has ended at the assertion, no loader built
C23_Witness ==
    /\ cfg.train_inpainting
    /\ cfg.cached_latents
    /\ pc = "aborted"
    /\ error = "AssertionError: Cached latents not supported for inpainting"
    /\ train_dataloader = "none"
    /\ models = "returned"

\* ------------------------------------------------------------ C24
IsWord(w) == w # "|"

\* the words of the initializer argument written one after the other
\* (<rand-0.017> per placeholder token when the argument is not given)
InitializerWordsJoined ==
    IF cfg.initializer_given
    THEN Join(SelectSeq(cfg.initializer_tokens, IsWord))
    ELSE Join([i \in 1 .. Len(placeholder_tokens) |-> "<rand-0.017>"])

\* C24: the class label train passes to both loops is the concatenation of the
\* initializer tokens for every value of proxy_token, set or None: it is the
\* same in two runs that differ only in proxy_token.
C24_ClassLabelIgnoresProxy ==
    /\ class_token # "" => class_token = InitializerWordsJoined
    /\ pc \in (TiPcs \cup TuLoopPcs) =>
          /\ class_token = InitializerWordsJoined
          /\ class_token = Join(initializer_tokens)

\* a run with proxy_token "dog" and the initializers "cat|<zero>" has evaluated
\* in both loops with the class label "cat<zero>"
C24_Witness ==
    /\ cfg.proxy_token = "dog"
    /\ cfg.initializer_given
    /\ cfg.initializer_tokens = <<"cat", "|", "<zero>">>
    /\ class_token = "cat<zero>"
    /\ Len(evals) = 2
    /\ evals[1].phase = "ti"
    /\ evals[2].phase = "tuning"

\* ------------------------------------------------------------ C25
Range(seq) == {seq[i] : i \in DOMAIN seq}

Evaluated(phase) == \E i \in DOMAIN evals : evals[i].phase = phase

\* C25: for every listing of the evaluation image directory, both loops skip
\* the entries without a recognised image extension without error, and the
\* tuning loop selects the same set of reference images as the inversion loop.
C25_SameImagesSelected ==
    /\ Range(target_images.ti) \subseteq Range(cfg.listing)
    /\ Range(target_images.tuning) \subseteq Range(cfg.listing)
    /\ (Evaluated("ti") /\ Evaluated("tuning")) =>
          Range(target_images.tuning) = Range(target_images.ti)

============================================================================
